---- MODULE Spec2Model ----
(***************************************************************************)
(* The trait-assignment and nutrient-absorption scoring engine of app.py:  *)
(* get_genus, the species-level trait table, the nutrient model,           *)
(* absorption_score, and the Simulations page with simulate_addition.      *)
(*                                                                         *)
(* Numbers.  Python floats are modelled as exact rationals [n, d] in       *)
(* lowest terms with d > 0 (0.9 is R(9, 10)); rounding of binary floating  *)
(* point is not modelled.  Two values of the same shape with d = 0 stand   *)
(* for Python's None and for numpy's nan.                                  *)
(*                                                                         *)
(* Strings.  A species identifier is a Python value: a str, modelled as    *)
(* the sequence of its characters, or a non-str index label.  get_genus    *)
(* splits and lower-cases character by character.                          *)
(***************************************************************************)
EXTENDS Integers, Sequences, FiniteSets, TLC

VARIABLES
    baseline_abundance,  \* line 196: per-species mean of the cached table
    species_list,        \* line 208
    genus_map,           \* line 209
    genus_traits,        \* line 211, after the table was built from it
    default_trait,       \* line 231, after the table was built from it
    all_traits,          \* line 232: the list of rows handed to pd.DataFrame
    traits,              \* line 238: the DataFrame indexed by Species
    nutrients,           \* line 243
    page,                \* line 276: the page of the last script run, or the
                         \* function a caller of the module invoked last
    selected_bacteria,   \* line 453
    selected_nutrient,   \* line 455
    delta,               \* line 457
    baseline_score,      \* line 467
    new_abundance,       \* line 468
    new_score,           \* line 469
    change,              \* line 470
    pct_change,          \* line 471
    call,                \* arguments, arguments after the call and return
                         \* value of the last direct call of a function
    error                \* the exception the last run or call raised, "" if none

vars == <<baseline_abundance, species_list, genus_map, genus_traits,
          default_trait, all_traits, traits, nutrients, page,
          selected_bacteria, selected_nutrient, delta, baseline_score,
          new_abundance, new_score, change, pct_change, call, error>>

-----------------------------------------------------------------------------
(* Bounds of the model. *)

\* Largest abundance amount in a vector, in hundredths.
MaxAmount == 2
\* Largest |delta| of a perturbation, in hundredths.
MaxDelta == 2
\* Largest number of species (rows) of the loaded table.
MaxSpecies == 2
\* Largest scale factor k applied to a vector.
MaxScale == 3

-----------------------------------------------------------------------------
(* Exact rationals for Python's float arithmetic. *)

Abs(i) == IF i < 0 THEN -i ELSE i

RECURSIVE GCD(_, _)
GCD(a, b) == IF b = 0 THEN a ELSE GCD(b, a % b)

\* The rational n/d (d # 0) in lowest terms with a positive denominator.
\* (Operands are bound once, as values, before they are used.)
R(n, d) ==
    CHOOSE r \in {[n |-> (IF y < 0 THEN -1 ELSE 1) * (x \div g),
                   d |-> (IF y < 0 THEN -1 ELSE 1) * (y \div g)] :
                     <<x, y, g>> \in {<<n, d, GCD(Abs(n), Abs(d))>>}} : TRUE

Zero == [n |-> 0, d |-> 1]
\* Python's None, where a number is expected.
None == [n |-> 0, d |-> 0]
\* numpy's nan.
NaN == [n |-> 1, d |-> 0]

IsNum(x) == x.d > 0

RAdd(a, b) ==
    CHOOSE r \in {R(x.n * y.d + y.n * x.d, x.d * y.d) :
                     x \in {a}, y \in {b}} : TRUE
RSub(a, b) ==
    CHOOSE r \in {R(x.n * y.d - y.n * x.d, x.d * y.d) :
                     x \in {a}, y \in {b}} : TRUE
RMul(a, b) ==
    CHOOSE r \in {R((x.n \div GCD(Abs(x.n), y.d)) * (y.n \div GCD(Abs(y.n), x.d)),
                    (x.d \div GCD(Abs(y.n), x.d)) * (y.d \div GCD(Abs(x.n), y.d))) :
                     x \in {a}, y \in {b}} : TRUE
\* a / b for b # 0
RDiv(a, b) == CHOOSE r \in {RMul(a, R(y.d, y.n)) : y \in {b}} : TRUE
RLt(a, b) == \E x \in {a}, y \in {b} : x.n * y.d < y.n * x.d
RLe(a, b) == \E x \in {a}, y \in {b} : x.n * y.d <= y.n * x.d
RMax(a, b) ==
    CHOOSE r \in {IF RLt(x, y) THEN y ELSE x : x \in {a}, y \in {b}} : TRUE

-----------------------------------------------------------------------------
(* Species identifiers and get_genus (lines 201-206). *)

\* A str, by its characters.
Str(chars) == [isstr |-> TRUE, chars |-> chars]
\* An index label that is not a str (an integer label of the table).
NonStr(chars) == [isstr |-> FALSE, chars |-> chars]

UpperCase == <<"A","B","C","D","E","F","G","H","I","J","K","L","M",
               "N","O","P","Q","R","S","T","U","V","W","X","Y","Z">>
LowerCase == <<"a","b","c","d","e","f","g","h","i","j","k","l","m",
               "n","o","p","q","r","s","t","u","v","w","x","y","z">>

\* str.lower() on one character.
LowerChar(c) ==
    IF \E i \in 1..Len(UpperCase) : UpperCase[i] = c
    THEN LowerCase[CHOOSE i \in 1..Len(UpperCase) : UpperCase[i] = c]
    ELSE c

\* str.lower()
Lower(s) == [i \in 1..Len(s) |-> LowerChar(s[i])]

\* s.split("_")[0]: the text before the first underscore, all of s if none.
SplitFirst(s) ==
    IF \E i \in 1..Len(s) : s[i] = "_"
    THEN SubSeq(s, 1, (CHOOSE i \in 1..Len(s) :
                          /\ s[i] = "_"
                          /\ \A j \in 1..(i - 1) : s[j] # "_") - 1)
    ELSE s

\* get_genus without the lower(): a case-sensitive match of the genus.
get_genus_nolower(species) ==
    IF species.isstr
    THEN SplitFirst(species.chars)
    ELSE <<"u","n","k","n","o","w","n">>

get_genus(species) ==
    IF species.isstr
    THEN Lower(SplitFirst(species.chars))
    ELSE <<"u","n","k","n","o","w","n">>

-----------------------------------------------------------------------------
(* The static tables (lines 211-231, 243-250). *)

\* One trait dict, its values given in hundredths.
TV(scfa, ph, barrier, vitamin, siderophore) ==
    [SCFA |-> R(scfa, 100), pH_reduction |-> R(ph, 100),
     Barrier_support |-> R(barrier, 100),
     Vitamin_Biosynthesis |-> R(vitamin, 100),
     Siderophore |-> R(siderophore, 100)]

\* The literal of line 211.
GenusTraitsLiteral ==
       (<<"l","a","c","t","o","b","a","c","i","l","l","u","s">> :> TV(90, 90, 80, 60, 0)) @@
       (<<"b","i","f","i","d","o","b","a","c","t","e","r","i","u","m">> :> TV(80, 70, 80, 70, 0)) @@
       (<<"f","a","e","c","a","l","i","b","a","c","t","e","r","i","u","m">> :> TV(95, 90, 90, 40, 0)) @@
       (<<"r","o","s","e","b","u","r","i","a">> :> TV(90, 80, 70, 20, 0)) @@
       (<<"b","a","c","t","e","r","o","i","d","e","s">> :> TV(60, 30, 50, 50, 10)) @@
       (<<"p","r","e","v","o","t","e","l","l","a">> :> TV(70, 40, 60, 30, 0)) @@
       (<<"s","t","r","e","p","t","o","c","o","c","c","u","s">> :> TV(30, 50, 30, 30, 0)) @@
       (<<"c","l","o","s","t","r","i","d","i","u","m">> :> TV(80, 60, 40, 20, 0)) @@
       (<<"r","u","m","i","n","o","c","o","c","c","u","s">> :> TV(85, 70, 60, 30, 0)) @@
       (<<"e","s","c","h","e","r","i","c","h","i","a">> :> TV(10, 0, 10, 10, 90)) @@
       (<<"e","n","t","e","r","o","b","a","c","t","e","r">> :> TV(10, 0, 10, 10, 80)) @@
       (<<"e","u","b","a","c","t","e","r","i","u","m">> :> TV(50, 40, 30, 20, 0)) @@
       (<<"h","a","e","m","o","p","h","i","l","u","s">> :> TV(20, 20, 20, 20, 30)) @@
       (<<"m","e","g","a","s","p","h","a","e","r","a">> :> TV(70, 50, 40, 10, 0)) @@
       (<<"p","a","r","a","s","u","t","t","e","r","e","l","l","a">> :> TV(30, 20, 20, 20, 20)) @@
       (<<"g","e","m","m","i","g","e","r">> :> TV(60, 40, 50, 30, 0))

\* The literal of line 231.
DefaultTraitLiteral == TV(20, 10, 10, 10, 20)

\* The literal of line 243: nutrient -> (trait -> weight).
NutrientsLiteral ==
    [Iron |-> ("SCFA" :> R(4, 10)) @@ ("pH_reduction" :> R(3, 10)) @@
              ("Barrier_support" :> R(2, 10)) @@ ("Siderophore" :> R(-6, 10)),
     Vitamin_B12 |-> ("Vitamin_Biosynthesis" :> R(7, 10)) @@
                     ("Barrier_support" :> R(2, 10)),
     Folate |-> ("Vitamin_Biosynthesis" :> R(6, 10)),
     Calcium |-> ("SCFA" :> R(5, 10)) @@ ("pH_reduction" :> R(4, 10)),
     Magnesium |-> ("SCFA" :> R(4, 10)),
     Zinc |-> ("Barrier_support" :> R(4, 10)) @@ ("Siderophore" :> R(-5, 10))]

-----------------------------------------------------------------------------
(* The species-level trait table (lines 208-238). *)

\* baseline_abundance.index.tolist(): the row labels in the table's order
\* (one fixed order per set of labels; labels are unique keys).
RECURSIVE IndexToList(_)
IndexToList(S) ==
    IF S = {} THEN << >>
    ELSE LET sp == CHOOSE x \in S : TRUE
         IN  <<sp>> \o IndexToList(S \ {sp})

\* line 209: {sp: get_genus(sp) for sp in species_list}
GenusMap(list) ==
    [sp \in {list[i] : i \in 1..Len(list)} |-> get_genus(sp)]

\* dict.get(key, default)
DictGet(dict, key, default) ==
    IF key \in DOMAIN dict THEN dict[key] ELSE default

\* lines 233-237, the loop from position i on.  st holds the objects the
\* loop can reach: genus_traits, default_trait and the list all_traits.
\* row is a copy, so that row["Species"] = sp writes to neither prior.
RECURSIVE BuildLoop(_, _, _, _)
BuildLoop(list, gmap, i, st) ==
    IF i > Len(list) THEN st
    ELSE LET sp == list[i]
             genus == gmap[sp]
             row == ("Species" :> sp)
                      @@ DictGet(st.genus_traits, genus, st.default_trait)
         IN  BuildLoop(list, gmap, i + 1,
                       [st EXCEPT !.all_traits = Append(@, row)])

\* lines 231-237: the state of the three objects after the loop.
BuildTraits(list, gmap) ==
    BuildLoop(list, gmap, 1,
              [genus_traits |-> GenusTraitsLiteral,
               default_trait |-> DefaultTraitLiteral,
               all_traits |-> << >>])

\* line 238: pd.DataFrame(rows).set_index("Species"), as species -> row
\* without the Species column.
SetIndex(rows) ==
    [sp \in {rows[i]["Species"] : i \in 1..Len(rows)} |->
        LET row == rows[CHOOSE i \in 1..Len(rows) : rows[i]["Species"] = sp]
        IN  [t \in (DOMAIN row) \ {"Species"} |-> row[t]]]

\* traits.index
TraitsIndex(df) == DOMAIN df
\* traits.columns
TraitsColumns(df) == UNION {DOMAIN df[sp] : sp \in DOMAIN df}

-----------------------------------------------------------------------------
(* absorption_score (lines 252-270). *)

\* A returned value or a raised exception.
Ok(v) == [exc |-> "", val |-> v]
Raise(e) == [exc |-> e, val |-> None]

\* line 261: the entries that enter the score (df is the global traits).
Contributes(sp, ab, df) ==
    /\ sp \in TraitsIndex(df)
    /\ ab # None
    /\ RLt(Zero, ab)

\* line 264 with the abundance left out (as the per-species ranking of
\* line 426 computes it).
Term_noab(ab, t, w) == RMul(t, w)

\* line 264: ab * traits.loc[sp, trait] * w
Term(ab, t, w) == RMul(RMul(ab, t), w)

\* lines 262-264: the inner loop over nutrients[nutrient].items().
RECURSIVE TraitLoop(_, _, _, _, _, _)
TraitLoop(sp, ab, weights, todo, score, df) ==
    IF todo = {} THEN score
    ELSE LET trait == CHOOSE t \in todo : TRUE
         IN  TraitLoop(sp, ab, weights, todo \ {trait},
                       IF trait \in TraitsColumns(df)
                       THEN RAdd(score, Term(ab, df[sp][trait], weights[trait]))
                       ELSE score,
                       df)

\* lines 260-264: the loop over abundance.items().  nutrients[nutrient] is
\* evaluated only for an entry that contributes, and raises KeyError there
\* (model is the global nutrients).
RECURSIVE ScoreLoop(_, _, _, _, _, _)
ScoreLoop(abundance, todo, nutrient, score, df, model) ==
    IF todo = {} THEN Ok(score)
    ELSE LET sp == CHOOSE x \in todo : TRUE
             ab == abundance[sp]
         IN  IF Contributes(sp, ab, df)
             THEN IF nutrient \notin DOMAIN model
                  THEN Raise("KeyError")
                  ELSE ScoreLoop(abundance, todo \ {sp}, nutrient,
                                 TraitLoop(sp, ab, model[nutrient],
                                           DOMAIN model[nutrient], score, df),
                                 df, model)
             ELSE ScoreLoop(abundance, todo \ {sp}, nutrient, score, df, model)

RECURSIVE SumValues(_, _)
SumValues(abundance, todo) ==
    IF todo = {} THEN Zero
    ELSE LET sp == CHOOSE x \in todo : TRUE
         IN  RAdd(abundance[sp], SumValues(abundance, todo \ {sp}))

\* line 266 dividing by the number of entries instead (a mean per species).
total_ab_len(abundance) == R(Cardinality(DOMAIN abundance), 1)

\* line 266 summing only the amounts that contribute (v > 0).
total_ab_positive(abundance) ==
    SumValues(abundance, {sp \in DOMAIN abundance :
                             abundance[sp] # None /\ RLt(Zero, abundance[sp])})

RECURSIVE MaxValue(_, _)
MaxValue(abundance, todo) ==
    IF todo = {} THEN Zero
    ELSE LET sp == CHOOSE x \in todo : TRUE
         IN  RMax(abundance[sp], MaxValue(abundance, todo \ {sp}))

\* line 266 taking the largest amount instead of the sum (max for sum).
total_ab_max(abundance) ==
    MaxValue(abundance, {sp \in DOMAIN abundance : abundance[sp] # None})

\* line 266: sum([v for v in abundance.values() if v is not None])
total_ab(abundance) ==
    SumValues(abundance, {sp \in DOMAIN abundance : abundance[sp] # None})

\* lines 252-270, reading the globals traits (df) and nutrients (model).
\* A pd.Series argument is first turned into the dict of its entries
\* (lines 257-258): both are modelled as the same mapping.
absorption_score(abundance, nutrient, normalize, df, model) ==
    LET loop == ScoreLoop(abundance, DOMAIN abundance, nutrient, Zero,
                          df, model)
    IN  IF loop.exc # "" THEN loop
        ELSE IF normalize
             THEN IF RLt(Zero, total_ab(abundance))
                  THEN Ok(RDiv(loop.val, total_ab(abundance)))
                  ELSE Ok(Zero)
             ELSE loop

-----------------------------------------------------------------------------
(* The Simulations page (lines 446-471). *)

\* line 457: the slider's range, in hundredths.
SliderMin == -20
SliderMax == 50

\* lines 459-465 without the copy: new is the caller's dict itself.
simulate_addition_nocopy(abundance, microbe, d) ==
    LET amount == IF microbe \in DOMAIN abundance
                  THEN RMax(Zero, RAdd(abundance[microbe], d))
                  ELSE RMax(Zero, d)
        new == (microbe :> amount) @@ abundance
    IN  [exc |-> "", abundance |-> new, val |-> new]

\* lines 459-465 with the clamp missing where the species is absent.
simulate_addition_absent_unclamped(abundance, microbe, d) ==
    LET amount == IF microbe \in DOMAIN abundance
                  THEN RMax(Zero, RAdd(abundance[microbe], d))
                  ELSE d
    IN  [exc |-> "", abundance |-> abundance,
         val |-> (microbe :> amount) @@ abundance]

\* lines 459-465 with the clamp missing where the species is present.
simulate_addition_present_unclamped(abundance, microbe, d) ==
    LET amount == IF microbe \in DOMAIN abundance
                  THEN RAdd(abundance[microbe], d)
                  ELSE RMax(Zero, d)
    IN  [exc |-> "", abundance |-> abundance,
         val |-> (microbe :> amount) @@ abundance]

\* lines 459-465 with the sign of delta reversed.
simulate_addition_minus(abundance, microbe, d) ==
    LET amount == IF microbe \in DOMAIN abundance
                  THEN RMax(Zero, RSub(abundance[microbe], d))
                  ELSE RMax(Zero, RSub(Zero, d))
    IN  [exc |-> "", abundance |-> abundance,
         val |-> (microbe :> amount) @@ abundance]

\* lines 459-465.  abundance is the caller's dict after the call: new is a
\* copy (line 460), so the writes of lines 462 and 464 do not reach it.
\* None + delta raises TypeError (line 462).
simulate_addition(abundance, microbe, d) ==
    LET new == abundance
    IN  IF microbe \in DOMAIN new
        THEN IF new[microbe] = None
             THEN [exc |-> "TypeError", abundance |-> abundance, val |-> new]
             ELSE [exc |-> "", abundance |-> abundance,
                   val |-> [new EXCEPT ![microbe] = RMax(Zero, RAdd(@, d))]]
        ELSE [exc |-> "", abundance |-> abundance,
              val |-> (microbe :> RMax(Zero, d)) @@ new]

\* What a division by zero leaves: ZeroDivisionError for Python floats.
DivByZero == Raise("ZeroDivisionError")

\* line 471 without the guard.
PctChange_noguard(chg, base) ==
    IF base = Zero THEN DivByZero
    ELSE Ok(RMul(RDiv(chg, base), R(100, 1)))

\* line 471: (change / baseline_score * 100) if baseline_score != 0 else nan
PctChange(chg, base) ==
    IF base # Zero
    THEN Ok(RMul(RDiv(chg, base), R(100, 1)))
    ELSE Ok(NaN)

-----------------------------------------------------------------------------
(* Inputs. *)

Lactobacillus_casei ==
    Str(<<"L","a","c","t","o","b","a","c","i","l","l","u","s","_","c","a","s","e","i">>)
lactobacillus_sp ==
    Str(<<"l","a","c","t","o","b","a","c","i","l","l","u","s","_","s","p">>)
Bifidobacterium_longum ==
    Str(<<"B","i","f","i","d","o","b","a","c","t","e","r","i","u","m","_","l","o","n","g","u","m">>)
Akkermansia_muciniphila ==
    Str(<<"A","k","k","e","r","m","a","n","s","i","a","_","m","u","c","i","n","i","p","h","i","l","a">>)
Label42 == NonStr(<<"4","2">>)

\* The row labels a loaded table may carry.
Universe == {Lactobacillus_casei, lactobacillus_sp, Bifidobacterium_longum,
             Akkermansia_muciniphila, Label42}

\* Row means of a table, in hundredths (a negative value is possible in
\* the file though not meaningful).
Amounts == {R(k, 100) : k \in (-1)..MaxAmount}

\* The baseline vectors of the tables the program may have loaded: at
\* least one row (an empty table fails at line 238).
DataFiles ==
    UNION {[S -> Amounts] : S \in {T \in SUBSET Universe :
                                      Cardinality(T) \in 1..MaxSpecies}}

\* The species of the vectors handed to a direct call.
CallSpecies == {lactobacillus_sp, Bifidobacterium_longum,
                Akkermansia_muciniphila}

\* Abundance vectors with numeric amounts, as Series.to_dict() gives them
\* to simulate_addition (line 468).
NumericVectors == UNION {[S -> Amounts] : S \in SUBSET CallSpecies}

\* Abundance vectors for absorption_score, whose entries may also be None
\* (line 261 tests for it).
Vectors == UNION {[S -> Amounts \cup {None}] : S \in SUBSET CallSpecies}

\* The nutrient names a caller may pass: the six of the model and one
\* that is not a key of it.
NutrientArgs == (DOMAIN NutrientsLiteral) \cup {"Copper"}

\* The deltas a caller may pass.
CallDeltas == {R(k, 100) : k \in (-MaxDelta)..MaxDelta}

\* The slider's values within the bound.
Deltas == {R(k, 100) : k \in {j \in (-MaxDelta)..MaxDelta :
                                 SliderMin <= j /\ j <= SliderMax}}

NoSpecies == Str(<< >>)
\* No function was called: fn names the function, after is the argument
\* dict as the call left it, val a returned number, vec a returned dict.
NoCall == [fn |-> "", abundance |-> << >>, nutrient |-> "",
           normalize |-> FALSE, microbe |-> NoSpecies, delta |-> Zero,
           after |-> << >>, val |-> Zero, vec |-> << >>]

\* Nothing of the Simulations page has run.
NoSimulation ==
    /\ selected_bacteria' = NoSpecies
    /\ selected_nutrient' = ""
    /\ delta' = Zero
    /\ baseline_score' = Zero
    /\ new_abundance' = << >>
    /\ new_score' = Zero
    /\ change' = Zero
    /\ pct_change' = Zero

-----------------------------------------------------------------------------
(* The state machine. *)

\* Lines 195-250 with a table whose row means are data, and the Overview
\* page (the default of line 279), which calls nothing of the engine.
Init ==
    /\ baseline_abundance \in DataFiles
    /\ species_list = IndexToList(DOMAIN baseline_abundance)
    /\ genus_map = GenusMap(species_list)
    /\ LET built == BuildTraits(species_list, genus_map)
       IN  /\ genus_traits = built.genus_traits
           /\ default_trait = built.default_trait
           /\ all_traits = built.all_traits
           /\ traits = SetIndex(built.all_traits)
    /\ nutrients = NutrientsLiteral
    /\ page = "Overview"
    /\ selected_bacteria = NoSpecies
    /\ selected_nutrient = ""
    /\ delta = Zero
    /\ baseline_score = Zero
    /\ new_abundance = << >>
    /\ new_score = Zero
    /\ change = Zero
    /\ pct_change = Zero
    /\ call = NoCall
    /\ error = ""

\* Lines 195-250 of a rerun of the script: load_data is cached (line 184),
\* so the table is the one loaded first; everything after it is rebuilt.
Rerun ==
    /\ baseline_abundance' = baseline_abundance
    /\ species_list' = IndexToList(DOMAIN baseline_abundance')
    /\ genus_map' = GenusMap(species_list')
    /\ LET built == BuildTraits(species_list', genus_map')
       IN  /\ genus_traits' = built.genus_traits
           /\ default_trait' = built.default_trait
           /\ all_traits' = built.all_traits
           /\ traits' = SetIndex(built.all_traits)
    /\ nutrients' = NutrientsLiteral

\* A rerun of the script with the Overview page selected (line 285): the
\* engine is built and nothing of it is called.
Overview ==
    /\ Rerun
    /\ page' = "Overview"
    /\ NoSimulation
    /\ call' = NoCall
    /\ error' = ""

\* Lines 467-471 with the widgets' values, each line's value bound as it
\* is computed; a line that raises ends the run.
SimulationsBody(bacteria, nutrient, d) ==
    \E df \in {traits'}, model \in {nutrients'}, series \in {baseline_abundance'} :
    \E base \in {absorption_score(series, nutrient, TRUE, df, model)} :
    \E sim \in {simulate_addition(series, bacteria, d)} :
    \E new \in {absorption_score(sim.val, nutrient, TRUE, df, model)} :
    \E chg \in {RSub(new.val, base.val)} :
    \E pct \in {PctChange(chg, base.val)} :
        /\ selected_bacteria' = bacteria
        /\ selected_nutrient' = nutrient
        /\ delta' = d
        /\ error' = (IF base.exc # "" THEN base.exc
                     ELSE IF sim.exc # "" THEN sim.exc
                     ELSE IF new.exc # "" THEN new.exc
                     ELSE pct.exc)
        /\ baseline_score' = base.val
        /\ new_abundance' = sim.val
        /\ new_score' = new.val
        /\ change' = chg
        /\ pct_change' = pct.val

\* A rerun of the script with the Simulations page selected (lines 446-471)
\* and any values of its three widgets.  A run reads nothing that an
\* earlier run computed (every name of lines 446-471 is assigned before it
\* is read), so each run is taken from the idle Overview page.
Simulations ==
    /\ page = "Overview" /\ call.fn = ""
    /\ Rerun
    /\ page' = "Simulations"
    /\ call' = NoCall
    /\ \E bacteria \in (DOMAIN baseline_abundance') \cap TraitsIndex(traits'),
          nutrient \in DOMAIN nutrients', d \in Deltas :
          SimulationsBody(bacteria, nutrient, d)

\* A call absorption_score(abundance, nutrient, normalize) on the loaded
\* module (lines 252-270).  The function assigns to no global.
CallAbsorptionScore ==
    /\ page = "Overview" /\ call.fn = ""
    /\ \E abundance \in Vectors, nutrient \in NutrientArgs,
          normalize \in BOOLEAN :
       \E r \in {absorption_score(abundance, nutrient, normalize,
                                  traits, nutrients)} :
          /\ call' = [NoCall EXCEPT !.fn = "absorption_score",
                                    !.abundance = abundance,
                                    !.nutrient = nutrient,
                                    !.normalize = normalize,
                                    !.after = abundance,
                                    !.val = r.val]
          /\ error' = r.exc
    /\ NoSimulation
    /\ UNCHANGED <<baseline_abundance, species_list, genus_map, genus_traits,
                   default_trait, all_traits, traits, nutrients, page>>

\* A call simulate_addition(abundance, microbe, delta) with a dict of
\* numbers (lines 459-465).
CallSimulateAddition ==
    /\ page = "Overview" /\ call.fn = ""
    /\ \E abundance \in NumericVectors, microbe \in CallSpecies,
          d \in CallDeltas :
       \E r \in {simulate_addition(abundance, microbe, d)} :
          /\ call' = [NoCall EXCEPT !.fn = "simulate_addition",
                                    !.abundance = abundance,
                                    !.microbe = microbe,
                                    !.delta = d,
                                    !.after = r.abundance,
                                    !.vec = r.val]
          /\ error' = r.exc
    /\ NoSimulation
    /\ UNCHANGED <<baseline_abundance, species_list, genus_map, genus_traits,
                   default_trait, all_traits, traits, nutrients, page>>

\* The script's runs: one page at a time, from the Overview page.
Next == Simulations \/ Overview

Spec == Init /\ [][Next]_vars

\* The loaded module with its functions called: tables of the vectors'
\* species, each with the same mean.
InitCalls ==
    /\ Init
    /\ DOMAIN baseline_abundance \subseteq CallSpecies
    /\ \A sp \in DOMAIN baseline_abundance :
          baseline_abundance[sp] = R(1, 100)

NextCalls ==
    \/ CallAbsorptionScore
    \/ CallSimulateAddition
    \/ Simulations
    \/ Overview

SpecCalls == InitCalls /\ [][NextCalls]_vars

-----------------------------------------------------------------------------
(* Properties of absorption_score, read off the last direct call. *)

Scored == call.fn = "absorption_score"

\* The vector v without the entries of the species in S.
Without(v, S) == [sp \in (DOMAIN v) \ S |-> v[sp]]

NullEntries(v) == {sp \in DOMAIN v : v[sp] = None}
ZeroEntries(v) == {sp \in DOMAIN v : v[sp] = Zero}
NegativeEntries(v) == {sp \in DOMAIN v : v[sp] # None /\ RLt(v[sp], Zero)}
PositiveEntries(v) == {sp \in DOMAIN v : v[sp] # None /\ RLt(Zero, v[sp])}

\* The last call returned what absorption_score gives for the vector v.
SameScoreAs(v) ==
    \E r \in {absorption_score(v, call.nutrient, call.normalize,
                               traits, nutrients)} :
        /\ error = r.exc
        /\ call.val = r.val

\* C1 as stated: zero, negative and missing entries are excluded from the
\* numerator and from the denominator, so the normalized score of a vector
\* equals the normalized score of the vector without those entries.
C1_ExcludedFromBoth ==
    (Scored /\ call.normalize) =>
        SameScoreAs(Without(call.abundance,
                            NullEntries(call.abundance)
                              \cup ZeroEntries(call.abundance)
                              \cup NegativeEntries(call.abundance)))

\* C1 amended: zero and missing entries are excluded from the numerator and
\* from the denominator (a negative entry still counts in the denominator),
\* so the normalized score of a vector equals the normalized score of the
\* vector without its zero and missing entries.
C1_ZeroAndMissingExcluded ==
    (Scored /\ call.normalize) =>
        SameScoreAs(Without(call.abundance,
                            NullEntries(call.abundance)
                              \cup ZeroEntries(call.abundance)))

\* A normalized call on a vector with a zero entry, a missing entry and an
\* entry that contributes, with a score that is not 0.
C1_Witness ==
    /\ Scored /\ call.normalize /\ error = ""
    /\ NullEntries(call.abundance) # {}
    /\ ZeroEntries(call.abundance) # {}
    /\ PositiveEntries(call.abundance) \cap DOMAIN traits # {}
    /\ call.val # Zero

\* The sum of the values of a function to the rationals.
RECURSIVE SumOf(_)
SumOf(f) ==
    IF DOMAIN f = {} THEN Zero
    ELSE LET x == CHOOSE y \in DOMAIN f : TRUE
         IN  RAdd(f[x], SumOf([y \in (DOMAIN f) \ {x} |-> f[y]]))

\* The score of one unit of species sp for a nutrient: the sum of trait
\* value times nutrient weight.
PerUnit(sp, nutrient) ==
    SumOf([t \in (DOMAIN nutrients[nutrient]) \cap (DOMAIN traits[sp]) |->
              RMul(traits[sp][t], nutrients[nutrient][t])])

\* raw: amount * trait value * weight over the entries that are non-null,
\* strictly positive and in the trait table.
RawOf(v, nutrient) ==
    SumOf([sp \in PositiveEntries(v) \cap DOMAIN traits |->
              RMul(v[sp], PerUnit(sp, nutrient))])

\* total: the sum of all non-null amounts.
TotalOf(v) == SumOf(Without(v, NullEntries(v)))

\* C2: with normalize=True and a known nutrient, absorption_score returns
\* raw / total when total > 0 and exactly 0 when total <= 0, and raises
\* nothing.
C2_NormalizedScore ==
    (Scored /\ call.normalize /\ call.nutrient \in DOMAIN nutrients) =>
        /\ error = ""
        /\ call.val = IF RLt(Zero, TotalOf(call.abundance))
                      THEN RDiv(RawOf(call.abundance, call.nutrient),
                                TotalOf(call.abundance))
                      ELSE Zero

\* A normalized call whose total is not positive although an entry
\* contributes to raw: the degenerate total, answered by 0.
C2_Witness ==
    /\ Scored /\ call.normalize /\ call.nutrient \in DOMAIN nutrients
    /\ error = ""
    /\ RawOf(call.abundance, call.nutrient) # Zero
    /\ NegativeEntries(call.abundance) # {}
    /\ ~RLt(Zero, TotalOf(call.abundance))
    /\ call.val = Zero

\* C3 as stated: absorption_score raises the unknown-nutrient error
\* whenever the nutrient is not a key of the nutrient model, for every
\* vector and in both modes.
C3_UnknownNutrientRaises ==
    (Scored /\ call.nutrient \notin DOMAIN nutrients) => error = "KeyError"

\* The vector v with every amount multiplied by k.
Scaled(v, k) ==
    [sp \in DOMAIN v |-> IF v[sp] = None THEN None ELSE RMul(R(k, 1), v[sp])]

\* C9: with normalize=False, the score of the vector scaled by k > 0 is k
\* times the score of the vector (and raises when that call raised).
C9_RawScoreLinear ==
    (Scored /\ ~call.normalize) =>
        \A k \in 1..MaxScale :
            \E r \in {absorption_score(Scaled(call.abundance, k),
                                       call.nutrient, FALSE,
                                       traits, nutrients)} :
                /\ r.exc = error
                /\ error = "" => r.val = RMul(R(k, 1), call.val)

\* A raw call with two contributing entries and a score that is not 0.
C9_Witness ==
    /\ Scored /\ ~call.normalize /\ error = ""
    /\ Cardinality(PositiveEntries(call.abundance) \cap DOMAIN traits) >= 2
    /\ call.val # Zero

\* A trait value or a fraction: a number of [0, 1].
InUnit(x) == RLe(Zero, x) /\ RLe(x, R(1, 1))

\* The sum of a nutrient's negative trait weights, and of its positive
\* ones.
NegativeWeights(nutrient) ==
    SumOf([t \in {u \in DOMAIN nutrients[nutrient] :
                     RLt(nutrients[nutrient][u], Zero)} |->
              nutrients[nutrient][t]])

PositiveWeights(nutrient) ==
    SumOf([t \in {u \in DOMAIN nutrients[nutrient] :
                     RLt(Zero, nutrients[nutrient][u])} |->
              nutrients[nutrient][t]])

\* A normalized call for a nutrient of the model with a vector whose
\* non-null amounts are all non-negative.
ScoredNonNegative ==
    /\ Scored /\ call.normalize
    /\ call.nutrient \in DOMAIN nutrients
    /\ NegativeEntries(call.abundance) = {}

\* C11: every trait value of the genus table, of the default vector and
\* of the species table lies in [0, 1], and for a nutrient of the model
\* and a vector whose non-null amounts are all non-negative the normalized
\* score is returned without an error and lies between the sum of the
\* nutrient's negative weights and the sum of its positive weights
\* (between -0.6 and 0.9 for Iron).
C11_NormalizedBound ==
    /\ \A g \in DOMAIN genus_traits : \A t \in DOMAIN genus_traits[g] :
           InUnit(genus_traits[g][t])
    /\ \A t \in DOMAIN default_trait : InUnit(default_trait[t])
    /\ \A sp \in DOMAIN traits : \A t \in DOMAIN traits[sp] :
           InUnit(traits[sp][t])
    /\ NegativeWeights("Iron") = R(-6, 10)
    /\ PositiveWeights("Iron") = R(9, 10)
    /\ ScoredNonNegative =>
           /\ error = ""
           /\ RLe(NegativeWeights(call.nutrient), call.val)
           /\ RLe(call.val, PositiveWeights(call.nutrient))

\* A normalized call with non-negative amounts whose score is below 0 (a
\* nutrient with a negative weight) and whose denominator is larger than
\* the sum of the contributing amounts (a positive entry that is not in
\* the trait table).
C11_Witness ==
    /\ ScoredNonNegative /\ error = ""
    /\ PositiveEntries(call.abundance) \cap DOMAIN traits # {}
    /\ PositiveEntries(call.abundance) \ DOMAIN traits # {}
    /\ NullEntries(call.abundance) # {}
    /\ RLt(call.val, Zero)
    /\ RLt(NegativeWeights(call.nutrient), call.val)

\* A normalized call with non-negative amounts whose score is the
\* weighted mean of two species' scores, above 0.
C11_WitnessMean ==
    /\ ScoredNonNegative /\ error = ""
    /\ call.nutrient = "Iron"
    /\ Cardinality(PositiveEntries(call.abundance) \cap DOMAIN traits) >= 2
    /\ RLt(Zero, call.val)

-----------------------------------------------------------------------------
(* Properties of simulate_addition, read off the last direct call. *)

Perturbed == call.fn = "simulate_addition"

\* max(0, x)
AtLeastZero(x) == IF RLt(x, Zero) THEN Zero ELSE x

\* -x
Neg(x) == RSub(Zero, x)

\* C4: the returned vector equals the input at every other species, and
\* gives the perturbed species max(0, current + delta) if it is present,
\* max(0, delta) if it is absent: never a negative amount.
C4_ApplyDelta ==
    Perturbed =>
        /\ error = ""
        /\ DOMAIN call.vec = (DOMAIN call.abundance) \cup {call.microbe}
        /\ \A sp \in (DOMAIN call.abundance) \ {call.microbe} :
              call.vec[sp] = call.abundance[sp]
        /\ call.vec[call.microbe] =
              IF call.microbe \in DOMAIN call.abundance
              THEN AtLeastZero(RAdd(call.abundance[call.microbe], call.delta))
              ELSE AtLeastZero(call.delta)
        /\ RLe(Zero, call.vec[call.microbe])

\* A negative delta on an absent species, beside another species whose
\* amount is kept.
C4_Witness ==
    /\ Perturbed /\ error = ""
    /\ call.microbe \notin DOMAIN call.abundance
    /\ RLt(call.delta, Zero)
    /\ call.vec[call.microbe] = Zero
    /\ \E sp \in DOMAIN call.abundance : call.vec[sp] # Zero

\* The species is present with amount a, and a + delta < 0.
BelowZero ==
    /\ Perturbed /\ error = ""
    /\ call.microbe \in DOMAIN call.abundance
    /\ RLt(RAdd(call.abundance[call.microbe], call.delta), Zero)

\* The amount of the species after the call is undone with -delta:
\* applyDelta(applyDelta(v, s, d), s, -d)[s].
RoundTrip ==
    simulate_addition(call.vec, call.microbe, Neg(call.delta))
        .val[call.microbe]

\* C5 as stated: when a + d < 0, the round trip gives the species the
\* amount 0.
C5_RoundTripZero == BelowZero => RoundTrip = Zero

\* C5 amended: when a + d < 0, the round trip gives the species the amount
\* max(0, -d), which is greater than a (it is 0 only when d >= 0, that is
\* for a negative a).
C5_RoundTripMinusDelta ==
    BelowZero =>
        /\ RoundTrip = AtLeastZero(Neg(call.delta))
        /\ RLt(call.abundance[call.microbe], RoundTrip)

\* A positive amount driven below zero by a larger negative delta.
C5_Witness ==
    /\ BelowZero
    /\ RLt(Zero, call.abundance[call.microbe])
    /\ call.vec[call.microbe] = Zero

-----------------------------------------------------------------------------
(* Properties of the Simulations page. *)

Simulated == page = "Simulations"

\* The genus of a species name, as the text before its first underscore in
\* lower case (the capitals that occur in the tables' labels).
ClaimLower ==
    [c \in {"A", "B", "L"} |->
        IF c = "A" THEN "a" ELSE IF c = "B" THEN "b" ELSE "l"]
ClaimGenus(sp) ==
    LET s == sp.chars
        p == CHOOSE k \in 0..Len(s) :
                /\ \A j \in 1..k : s[j] # "_"
                /\ k < Len(s) => s[k + 1] = "_"
    IN  [i \in 1..p |-> IF s[i] \in DOMAIN ClaimLower
                        THEN ClaimLower[s[i]] ELSE s[i]]

Lactobacillus == <<"l","a","c","t","o","b","a","c","i","l","l","u","s">>

\* A lactobacillus species is given a positive delta, for Vitamin_B12.
AddsLactobacillus ==
    /\ Simulated /\ error = ""
    /\ selected_nutrient = "Vitamin_B12"
    /\ selected_bacteria.isstr
    /\ ClaimGenus(selected_bacteria) = Lactobacillus
    /\ RLt(Zero, delta)

\* C6 as stated: for every baseline and positive delta, adding a
\* lactobacillus species for Vitamin_B12 gives a normalized score at least
\* the baseline's.
C6_ScoreNotLower == AddsLactobacillus => RLe(baseline_score, new_score)

\* C6 amended: it does so for every baseline whose amount of that species
\* is not negative and whose normalized Vitamin_B12 score is at most 0.58,
\* the score of lactobacillus alone (0.6 * 0.7 + 0.8 * 0.2).
C6_ScoreNotLowerBelowOwn ==
    (/\ AddsLactobacillus
     /\ RLe(Zero, baseline_abundance[selected_bacteria])
     /\ RLe(baseline_score, R(58, 100)))
        => RLe(baseline_score, new_score)

\* A baseline with a positive score below 0.58 that the addition raises.
C6_Witness ==
    /\ AddsLactobacillus
    /\ RLe(Zero, baseline_abundance[selected_bacteria])
    /\ RLt(Zero, baseline_score)
    /\ RLt(baseline_score, R(58, 100))
    /\ RLt(baseline_score, new_score)

\* C7: percentChange is absoluteChange / baselineScore * 100 when the
\* baseline score is not 0 and not-a-number when it is 0, and the run
\* raises nothing.
C7_PercentChange ==
    Simulated =>
        /\ error = ""
        /\ change = RSub(new_score, baseline_score)
        /\ baseline_score # Zero =>
              /\ IsNum(pct_change)
              /\ RMul(pct_change, baseline_score) = RMul(change, R(100, 1))
        /\ baseline_score = Zero => pct_change = NaN

\* A baseline score of exactly 0 with a change that is not 0.
C7_Witness ==
    /\ Simulated /\ error = ""
    /\ baseline_score = Zero
    /\ change # Zero
    /\ pct_change = NaN

-----------------------------------------------------------------------------
(* Properties of the trait table. *)

\* The default vector, as the documentation states it.
ClaimDefault ==
    [SCFA |-> R(2, 10), pH_reduction |-> R(1, 10),
     Barrier_support |-> R(1, 10), Vitamin_Biosynthesis |-> R(1, 10),
     Siderophore |-> R(2, 10)]

\* The trait vector a species is to get.
ClaimVector(sp) ==
    IF sp.isstr /\ ClaimGenus(sp) \in DOMAIN GenusTraitsLiteral
    THEN GenusTraitsLiteral[ClaimGenus(sp)]
    ELSE ClaimDefault

SpeciesOfList == {species_list[i] : i \in 1..Len(species_list)}

\* C8: the table has exactly one entry for every species of the list, the
\* prior of the species' genus if that is one of the 16 known genera and
\* the default vector otherwise; species of one genus have equal vectors.
C8_TraitTable ==
    /\ Cardinality(DOMAIN GenusTraitsLiteral) = 16
    /\ SpeciesOfList = DOMAIN baseline_abundance
    /\ Len(all_traits) = Len(species_list)
    /\ \A sp \in SpeciesOfList :
          Cardinality({i \in 1..Len(all_traits) :
                          all_traits[i]["Species"] = sp}) = 1
    /\ DOMAIN traits = SpeciesOfList
    /\ \A sp \in SpeciesOfList : traits[sp] = ClaimVector(sp)
    /\ \A sp1, sp2 \in SpeciesOfList :
          (sp1.isstr /\ sp2.isstr /\ ClaimGenus(sp1) = ClaimGenus(sp2))
             => traits[sp1] = traits[sp2]

\* Two species of the genus lactobacillus, one of them capitalised, with
\* the prior of lactobacillus.
C8_Witness ==
    /\ SpeciesOfList = {Lactobacillus_casei, lactobacillus_sp}
    /\ traits[Lactobacillus_casei] = traits[lactobacillus_sp]
    /\ traits[Lactobacillus_casei]["SCFA"] = R(9, 10)

\* A species of no known genus and a label that is not a string, both with
\* the default vector.
C8_WitnessDefault ==
    /\ SpeciesOfList = {Akkermansia_muciniphila, Label42}
    /\ traits[Label42] = ClaimDefault
    /\ traits[Akkermansia_muciniphila] = ClaimDefault

-----------------------------------------------------------------------------
(* Frame. *)

\* No call and no run has written to an object it was given or reads.
Untouched ==
    /\ call.after = call.abundance
    /\ genus_traits = GenusTraitsLiteral
    /\ default_trait = DefaultTraitLiteral
    /\ nutrients = NutrientsLiteral

\* C10: scoring and simulation leave the baseline vector, the trait table,
\* the genus priors, the default trait vector and the nutrient model
\* unchanged, and a perturbation leaves its argument unchanged.
C10_Frame ==
    /\ []Untouched
    /\ [][/\ baseline_abundance' = baseline_abundance
          /\ traits' = traits
          /\ genus_traits' = genus_traits
          /\ default_trait' = default_trait
          /\ nutrients' = nutrients]_vars

\* A perturbation that returned a vector other than its argument.
C10_Witness ==
    /\ Perturbed /\ error = ""
    /\ call.vec # call.abundance
    /\ call.after = call.abundance

====
